---- MODULE Spec2Model ----
(***************************************************************************)
(* vdr-epg-tool: XMLTV programme guide -> VDR (SVDRP) loader.              *)
(*                                                                         *)
(* Two goroutines: main() decodes the XML source and sends one VDREPGEvent *)
(* per <programme> element on the channel `comm` (capacity 1);             *)
(* vdr_epg_load() owns the TCP connection, receives the events and speaks  *)
(* SVDRP (CLRE, PUTE blocks, QUIT).  `netdone` carries the completion      *)
(* signal back to main().                                                  *)
(*                                                                         *)
(* Go strings that the program slices, parses or formats (timestamps,      *)
(* frequencies, channel identifiers) are sequences of one-character        *)
(* strings; strings that are only compared or copied (call signs, titles)  *)
(* are TLA+ strings.                                                       *)
(***************************************************************************)
EXTENDS Integers, Sequences, FiniteSets, TLC

\* ------------------------------------------------------------------ bounds

\* Number of <channel>/<programme> start elements the XML source may hold.
MaxDoc == 4

\* Number of times the channel identifier of one descriptor is derived.
MaxCalls == 2

\* ------------------------------------------------------- program constants

VDR_SC_SERVICE_READY == 220
VDR_SC_SERVICE_CLOSING == 221
VDR_SC_ACTION_OK == 250
VDR_SC_EPG_START_SENDING == 354
VDR_SC_SYNTAX_ERR_CMD_UNREC == 500

\* comm := make(chan VDREPGEvent, 1)
CommCap == 1

\* conn := make(chan bool, 1)
NetdoneCap == 1

\* ------------------------------------------------------------ Go helpers

\* m[k] on a Go map: the zero value when the key is absent.
MapGet(m, k, zero) == IF k \in DOMAIN m THEN m[k] ELSE zero

\* Go integer division and remainder truncate toward zero.
GoDiv(a, b) == IF a >= 0 THEN a \div b ELSE -((-a) \div b)

GoMod(a, b) == a - b * GoDiv(a, b)

DigitChars == <<"0", "1", "2", "3", "4", "5", "6", "7", "8", "9">>

IsDigit(c) == \E i \in 1..10 : DigitChars[i] = c

DigitVal(c) == (CHOOSE i \in 1..10 : DigitChars[i] = c) - 1

RECURSIVE AtoiDigits(_)
AtoiDigits(s) ==
    IF s = <<>> THEN 0
    ELSE 10 * AtoiDigits(SubSeq(s, 1, Len(s) - 1)) + DigitVal(s[Len(s)])

IsNumber(s) == s # <<>> /\ \A i \in 1..Len(s) : IsDigit(s[i])

\* strconv.Atoi with the error discarded: 0 unless s is a decimal number
\* with an optional sign.
Atoi(s) ==
    IF IsNumber(s) THEN AtoiDigits(s)
    ELSE IF s # <<>> /\ Head(s) = "-" /\ IsNumber(Tail(s)) THEN -AtoiDigits(Tail(s))
    ELSE IF s # <<>> /\ Head(s) = "+" /\ IsNumber(Tail(s)) THEN AtoiDigits(Tail(s))
    ELSE 0

RECURSIVE FormatNat(_)
FormatNat(n) ==
    IF n < 10 THEN <<DigitChars[n + 1]>>
    ELSE FormatNat(n \div 10) \o <<DigitChars[(n % 10) + 1]>>

\* strconv.FormatInt(n, 10) and the %d verb.
FormatInt(n) == IF n < 0 THEN <<"-">> \o FormatNat(-n) ELSE FormatNat(n)

\* d[lo:hi] on a Go string (0-based, hi exclusive).
Slice(s, lo, hi) == SubSeq(s, lo + 1, hi)

\* Days since 1970-01-01 of the proleptic Gregorian date y-m-d; months and
\* days outside their range are normalised as time.Date does.
DaysFromCivil(y, m, d) ==
    LET yn  == y + ((m - 1) \div 12)
        mn  == ((m - 1) % 12) + 1
        ya  == IF mn <= 2 THEN yn - 1 ELSE yn
        era == ya \div 400
        yoe == ya - era * 400
        mp  == (mn + 9) % 12
        doy == ((153 * mp + 2) \div 5) + d - 1
        doe == yoe * 365 + (yoe \div 4) - (yoe \div 100) + doy
    IN  era * 146097 + doe - 719468

\* time.Date(d1, time.Month(d2), d3, d4, d5, d6, 0, time.UTC).Unix() on the
\* fixed-width slices of a YYYYMMDDHHMMSS timestamp.
ParseUnix(d) ==
    LET d1 == Atoi(Slice(d, 0, 4))
        d2 == Atoi(Slice(d, 4, 6))
        d3 == Atoi(Slice(d, 6, 8))
        d4 == Atoi(Slice(d, 8, 10))
        d5 == Atoi(Slice(d, 10, 12))
        d6 == Atoi(Slice(d, 12, 14))
    IN  DaysFromCivil(d1, d2, d3) * 86400 + d4 * 3600 + d5 * 60 + d6

\* eid := dts.Unix() / 60 % 0xffff
EventId(unix) == GoMod(GoDiv(unix, 60), 65535)

\* -------------------------------------------------------- lookup tables

\* The entries of the genre table the sample categories use.
genres ==
    [k \in {"Movie/Drama", "Action", "Comedy", "Sports", "News"} |->
        CASE k = "Movie/Drama" -> 16
          [] k = "Action" -> 16
          [] k = "Comedy" -> 20
          [] k = "Sports" -> 64
          [] k = "News" -> 32]

ratings ==
    [k \in {"TV-Y", "TV-Y7", "TV-G", "TV-PG", "TV-14", "TV-MA"} |->
        CASE k = "TV-Y" -> 2
          [] k = "TV-Y7" -> 7
          [] k = "TV-G" -> 8
          [] k = "TV-PG" -> 10
          [] k = "TV-14" -> 14
          [] k = "TV-MA" -> 18]

\* ------------------------------------------------------ channel directory

\* One channels.conf line as load_vdr_channels stores it (the fields the
\* program reads afterwards).
VDRChannel(name, cs, freq, src, sid, nid, tid) ==
    [Name |-> name, CallSign |-> cs, Frequency |-> freq, Source |-> src,
     ServiceId |-> sid, NetworkId |-> nid, TransportId |-> tid,
     Aliases |-> <<>>]

ChannelA ==
    VDRChannel("One", "A", <<"4", "7", "4", "0", "0", "0">>, <<"T">>,
               <<"3">>, <<"0">>, <<"0">>)

ChannelB ==
    VDRChannel("Two", "B", <<"1", "2", "3", "0", "0", "0">>, <<"S">>,
               <<"7">>, <<"1">>, <<"1">>)

\* "Three,:509028:M10:C:0:49=2:0:0:0:5:0:0:0": the second name is empty, so
\* load_vdr_channels files the descriptor under the call sign "".
ChannelNoSign ==
    VDRChannel("Three", "", <<"5", "0", "9", "0", "2", "8">>, <<"C">>,
               <<"5">>, <<"0">>, <<"0">>)

\* channels[cs[0]] = ch, for the lines of a channels.conf.
load_vdr_channels(lines) ==
    [cs \in {ch.CallSign : ch \in lines} |->
        CHOOSE ch \in lines : ch.CallSign = cs]

\* The channels.conf files of the model.
Directories ==
    {load_vdr_channels({ChannelA, ChannelB}),
     load_vdr_channels({ChannelA, ChannelB, ChannelNoSign})}

\* The alternate form taken only when both ids differ from "0".
vdr_make_channel_id_BothIds(c) ==
    LET fq0 == Atoi(c.Frequency)
        fq  == IF c.Source = <<"A">> \/ c.Source = <<"T">>
               THEN GoDiv(fq0, 1000) ELSE fq0
    IN  IF c.TransportId # <<"0">> /\ c.NetworkId # <<"0">>
        THEN c.Source \o <<"-">> \o c.NetworkId \o <<"-">> \o c.TransportId
                 \o <<"-">> \o c.ServiceId
        ELSE c.Source \o <<"-">> \o c.NetworkId \o <<"-">> \o FormatInt(fq)
                 \o <<"-">> \o c.ServiceId

vdr_make_channel_id(c) ==
    LET fq0 == Atoi(c.Frequency)
        fq  == IF c.Source = <<"A">> \/ c.Source = <<"T">>
               THEN GoDiv(fq0, 1000) ELSE fq0
    IN  IF c.TransportId # <<"0">> \/ c.NetworkId # <<"0">>
        THEN c.Source \o <<"-">> \o c.NetworkId \o <<"-">> \o c.TransportId
                 \o <<"-">> \o c.ServiceId
        ELSE c.Source \o <<"-">> \o c.NetworkId \o <<"-">> \o FormatInt(fq)
                 \o <<"-">> \o c.ServiceId

\* ------------------------------------------------------------ XML source

XmlIds == {"x", "y"}

\* <display-name> lists of the <channel> elements.
NameLists == {<<"A">>, <<"A", "B">>, <<"Z", "B">>, <<"Z">>}

ChannelRecords == {[Id |-> i, Names |-> n] : i \in XmlIds, n \in NameLists}

Ts1200 == <<"2", "0", "1", "3", "0", "1", "0", "1", "1", "2", "0", "0", "0", "0">>

Ts1230 == <<"2", "0", "1", "3", "0", "1", "0", "1", "1", "2", "3", "0", "0", "0">>

Ts1330 == <<"2", "0", "1", "3", "0", "1", "0", "1", "1", "3", "3", "0", "0", "0">>

Programme(ch, start, stop, title, sub, desc, cats, rating) ==
    [Channel |-> ch, Start |-> start, Stop |-> stop, Title |-> title,
     SubTitle |-> sub, Description |-> desc, Categories |-> cats,
     Rating |-> rating]

\* The <programme> elements of the model: channel x with and without
\* subtitle, categories and rating; channel y with a rating label that is
\* not in the table.
ProgrammeRecords ==
    {Programme("x", Ts1200, Ts1230, "t1", "", "d1", <<>>, ""),
     Programme("x", Ts1230, Ts1330, "t2", "s2", "d2", <<"News", "Bogus">>, "TV-G"),
     Programme("y", Ts1200, Ts1230, "t1", "", "d1", <<>>, "NR")}

\* ----------------------------------------------------------------- state

VARIABLES
    channels,          \* var channels map[string]VDRChannel (loaded before the goroutines start)
    xmltvid2callsign,  \* main: XML channel id -> call sign
    ntokens,           \* main: <channel>/<programme> elements decoded so far
    err,               \* main: err of the last decoder.Token() ("nil" inside the loop body)
    mpc,               \* main: position ("loop", "send", "close", "wait", "returned")
    ev,                \* main: the event built and not yet sent (<<>> or <<ev>>)
    comm,              \* chan VDREPGEvent: buffered events
    commClosed,        \* close(comm) was called
    netdone,           \* chan bool (main calls it conn): buffered signals
    spc,               \* vdr_epg_load: position
    e,                 \* vdr_epg_load: the event being transmitted (<<>> or <<e>>)
    cur_channel,       \* vdr_epg_load: call sign of the open block, "" for none
    nchan,             \* vdr_epg_load: per call sign counter
    connState,         \* the TCP connection: "none", "open", "closed"
    procState,         \* the process: "running", "fatal" (log.Fatal / panic), "exited"
    sent,              \* every line written to the peer, in order
    recvd,             \* every reply read: <<expected code, the line read>>
    programmes,        \* every Programme record decoded, in document order
    enqueued,          \* every event sent on comm, in order
    dequeued           \* every event received from comm, in order

vars ==
    <<channels, xmltvid2callsign, ntokens, err, mpc, ev, comm, commClosed, netdone,
      spc, e, cur_channel, nchan, connState, procState, sent, recvd,
      programmes, enqueued, dequeued>>

mainVars == <<xmltvid2callsign, ntokens, err, mpc, ev, programmes>>

sessVars == <<spc, e, cur_channel, nchan, connState, sent, recvd>>

\* m[k] = v on a Go map.
MapPut(m, k, v) == [x \in (DOMAIN m) \cup {k} |-> IF x = k THEN v ELSE m[x]]

EmptyMap == [x \in {} |-> 0]

Init ==
    /\ channels \in Directories
    /\ xmltvid2callsign = EmptyMap
    /\ ntokens = 0
    /\ err = "nil"
    /\ mpc = "loop"
    /\ ev = <<>>
    /\ comm = <<>>
    /\ commClosed = FALSE
    /\ netdone = <<>>
    /\ spc = "dial"
    /\ e = <<>>
    /\ cur_channel = ""
    /\ nchan = EmptyMap
    /\ connState = "none"
    /\ procState = "running"
    /\ sent = <<>>
    /\ recvd = <<>>
    /\ programmes = <<>>
    /\ enqueued = <<>>
    /\ dequeued = <<>>

\* ------------------------------------------------------------- main()

\* The display names of a <channel> element that are directory keys.
Matches(ch) == {i \in 1..Len(ch.Names) : ch.Names[i] \in DOMAIN channels}

\* for _, name := range ch.Names { if el, found := channels[name]; found { ...; break } }
CrossReference(map, ch) ==
    IF Matches(ch) = {} THEN map
    ELSE LET i == CHOOSE j \in Matches(ch) : \A k \in Matches(ch) : j <= k
         IN  MapPut(map, ch.Id, channels[ch.Names[i]].CallSign)

\* for _, val := range p.Categories { ev.GGenres = append(ev.GGenres, genres[val]) }
GenreCodes(cats) == [i \in 1..Len(cats) |-> MapGet(genres, cats[i], 0)]

\* A label that is not in the table rated as the highest age.
RatingCode_UnknownIsAdult(label) == MapGet(ratings, label, 18)

\* RRating: ratings[p.Rating]
RatingCode(label) == MapGet(ratings, label, 0)

MakeEvent(p, map) ==
    [CChannel |-> p.Channel,
     ChannelCallSign |-> MapGet(map, p.Channel, ""),
     EEventId |-> 0,
     EEStartTime |-> p.Start,
     EEStopTime |-> p.Stop,
     EEDuration |-> p.Stop,
     TTitle |-> p.Title,
     SSubTitle |-> p.SubTitle,
     DDescription |-> p.Description,
     GGenres |-> GenreCodes(p.Categories),
     RRating |-> RatingCode(p.Rating)]

\* The first matching entry of the directory takes the display names.
AfterAliases_InPlace(dir, ch) ==
    IF \A i \in 1..Len(ch.Names) : ch.Names[i] \notin DOMAIN dir THEN dir
    ELSE LET i == CHOOSE j \in 1..Len(ch.Names) :
                      /\ ch.Names[j] \in DOMAIN dir
                      /\ \A k \in 1..(j - 1) : ch.Names[k] \notin DOMAIN dir
         IN  [dir EXCEPT ![ch.Names[i]].Aliases = ch.Names]

\* el.Aliases = make(...); copy(el.Aliases, ch.Names): el is a copy of the
\* map value, so the directory keeps the entry it had.
AfterAliases(dir, ch) == dir

\* decoder.Token() yields the start of a <channel> element.
MainChannel ==
    /\ procState = "running"
    /\ mpc = "loop"
    /\ ntokens < MaxDoc
    /\ \E ch \in ChannelRecords :
           /\ xmltvid2callsign' = CrossReference(xmltvid2callsign, ch)
           /\ channels' = AfterAliases(channels, ch)
    /\ ntokens' = ntokens + 1
    /\ UNCHANGED <<err, mpc, ev, programmes, comm, commClosed, netdone,
                   enqueued, dequeued, procState>>
    /\ UNCHANGED sessVars

\* decoder.Token() yields the start of a <programme> element: the event is
\* built and main reaches `comm <- ev`.
MainProgramme ==
    /\ procState = "running"
    /\ mpc = "loop"
    /\ ntokens < MaxDoc
    /\ \E p \in ProgrammeRecords :
           /\ ev' = <<MakeEvent(p, xmltvid2callsign)>>
           /\ programmes' = Append(programmes, p)
    /\ ntokens' = ntokens + 1
    /\ mpc' = "send"
    /\ UNCHANGED <<channels, err, xmltvid2callsign, comm, commClosed, netdone,
                   enqueued, dequeued, procState>>
    /\ UNCHANGED sessVars

\* A send that never blocks (an unbounded buffer).
CanSend_Unbounded(q, cap) == TRUE

\* A send on a buffered channel proceeds when the buffer has room.
CanSend(q, cap) == Len(q) < cap

\* comm <- ev
MainSend ==
    /\ procState = "running"
    /\ mpc = "send"
    /\ CanSend(comm, CommCap)
    /\ comm' = Append(comm, ev[1])
    /\ enqueued' = Append(enqueued, ev[1])
    /\ ev' = <<>>
    /\ mpc' = "loop"
    /\ UNCHANGED <<channels, err, xmltvid2callsign, ntokens, programmes, commClosed,
                   netdone, dequeued, procState>>
    /\ UNCHANGED sessVars

\* The outcomes of decoder.Token() that carry no token: the end of the
\* source, or a read that failed.
NoTokenErrs == {"EOF", "read failed"}

\* A failed read ends the process.
MainEOF_FatalOnError ==
    /\ procState = "running"
    /\ mpc = "loop"
    /\ \E r \in NoTokenErrs :
           /\ err' = r
           /\ procState' = IF r = "EOF" THEN procState ELSE "fatal"
    /\ mpc' = "close"
    /\ UNCHANGED <<channels, xmltvid2callsign, ntokens, ev, programmes, comm,
                   commClosed, netdone, enqueued, dequeued>>
    /\ UNCHANGED sessVars

\* t, err := decoder.Token(); if t == nil { break }: the token is nil at the
\* end of the source and after a failed read alike.
MainEOF ==
    /\ procState = "running"
    /\ mpc = "loop"
    /\ \E r \in NoTokenErrs : err' = r
    /\ mpc' = "close"
    /\ UNCHANGED <<channels, xmltvid2callsign, ntokens, ev, programmes, comm,
                   commClosed, netdone, enqueued, dequeued, procState>>
    /\ UNCHANGED sessVars

\* main goes on to wait without closing comm.
MainClose_NoClose ==
    /\ procState = "running"
    /\ mpc = "close"
    /\ mpc' = "wait"
    /\ err' = "nil"
    /\ UNCHANGED <<channels, xmltvid2callsign, ntokens, ev, programmes, comm,
                   commClosed, netdone, enqueued, dequeued, procState>>
    /\ UNCHANGED sessVars

\* close(comm)
MainClose ==
    /\ procState = "running"
    /\ mpc = "close"
    /\ commClosed' = TRUE
    /\ mpc' = "wait"
    /\ err' = "nil"
    /\ UNCHANGED <<channels, xmltvid2callsign, ntokens, ev, programmes, comm,
                   netdone, enqueued, dequeued, procState>>
    /\ UNCHANGED sessVars

\* A receive proceeds when the buffer holds a value.
CanRecv(q) == Len(q) > 0

\* A receive that leaves the value in the buffer.
AfterRecv_Keeps(q) == q

\* The buffer after a receive: the oldest value is gone.
AfterRecv(q) == Tail(q)

\* main returns without the receive from conn.
MainWait_NoWait ==
    /\ procState = "running"
    /\ mpc = "wait"
    /\ mpc' = "returned"
    /\ procState' = "exited"
    /\ UNCHANGED <<channels, err, xmltvid2callsign, ntokens, ev, programmes, comm,
                   commClosed, netdone, enqueued, dequeued>>
    /\ UNCHANGED sessVars

\* <-conn, then main returns and the process exits.
MainWait ==
    /\ procState = "running"
    /\ mpc = "wait"
    /\ CanRecv(netdone)
    /\ netdone' = AfterRecv(netdone)
    /\ mpc' = "returned"
    /\ procState' = "exited"
    /\ UNCHANGED <<channels, err, xmltvid2callsign, ntokens, ev, programmes, comm,
                   commClosed, enqueued, dequeued>>
    /\ UNCHANGED sessVars

\* ------------------------------------------------------ SVDRP primitives

\* svdrp_write: one line (or several lines joined by \r\n) written to conn.
svdrp_write(log, lines) == log \o lines

\* What one r.ReadString('\n') can return: a reply line (its text up to the
\* status code), a line shorter than a status code, or a read error.
ReplyLine(code) == [err |-> FALSE, line |-> FormatInt(code)]

\* The peer answers an awaited reply with the expected code or with an
\* error code, or the line is cut short, or the read fails.
PeerReplies(reply) ==
    {ReplyLine(reply), ReplyLine(VDR_SC_SYNTAX_ERR_CMD_UNREC),
     [err |-> FALSE, line |-> <<"5">>], [err |-> TRUE, line |-> <<>>]}

\* A reply check that looks at the read error only.
ReplyAccepted_NoStatus(data, reply) == ~data.err

\* svdrp_wait_for_reply returns (instead of ending the process through
\* l.Fatalln, l.Fatalf or the panic of data[0:3] on a short line).
ReplyAccepted(data, reply) ==
    /\ ~data.err
    /\ Len(data.line) >= 3
    /\ Slice(data.line, 0, 3) = FormatInt(reply)

\* l.Fatalln / l.Fatalf / panic: the process ends, nothing else happens.
Fatal ==
    /\ procState' = "fatal"
    /\ UNCHANGED <<spc, e, cur_channel, nchan, connState, sent, comm, netdone,
                   dequeued>>

\* -------------------------------------------------------- vdr_epg_load()

CmdLine(c) == <<c>>

\* The close sequence: svdrp_write(conn, "c"); svdrp_write(conn, ".")
CloseSequence == <<CmdLine("c"), CmdLine(".")>>

RECURSIVE GenreList(_)
\* g += strconv.FormatInt(int64(v), 10) + " "
GenreList(gs) ==
    IF gs = <<>> THEN <<>>
    ELSE FormatInt(Head(gs)) \o <<" ">> \o GenreList(Tail(gs))

\* "C <channel id> <call sign>"
HeaderLine(cs) == <<"C", vdr_make_channel_id(channels[cs]), cs>>

\* The subtitle line written for every event.
BodyLines_SubtitleAlways(evt) ==
    LET dts == ParseUnix(evt.EEStartTime)
        dte == ParseUnix(evt.EEStopTime)
        du  == dte - dts
        eid == EventId(dts)
    IN  <<<<"E", eid, dts, du, 0>>, <<"T", evt.TTitle>>, <<"S", evt.SSubTitle>>,
          <<"D", evt.DDescription>>, <<"G", GenreList(evt.GGenres)>>,
          <<"R", evt.RRating>>, <<"e">>>>

\* The lines of one event: E, T, [S], D, G, R, e.
BodyLines(evt) ==
    LET dts == ParseUnix(evt.EEStartTime)
        dte == ParseUnix(evt.EEStopTime)
        du  == dte - dts
        eid == EventId(dts)
    IN  <<<<"E", eid, dts, du, 0>>, <<"T", evt.TTitle>>>>
        \o (IF evt.SSubTitle # "" THEN <<<<"S", evt.SSubTitle>>>> ELSE <<>>)
        \o <<<<"D", evt.DDescription>>, <<"G", GenreList(evt.GGenres)>>,
             <<"R", evt.RRating>>, <<"e">>>>

\* nchan[k]++
Incr(m, k) == MapPut(m, k, MapGet(m, k, 0) + 1)

\* if _, fc := channels[e.ChannelCallSign]; fc == false { continue }
Dropped(evt) == evt.ChannelCallSign \notin DOMAIN channels

\* A drop that forgets the open block.
DropEvent_Resets ==
    /\ cur_channel' = ""
    /\ UNCHANGED <<spc, e, nchan, sent>>

\* continue: the event is discarded, the session state stays as it is.
DropEvent == UNCHANGED <<spc, e, cur_channel, nchan, sent>>

\* if cur_channel != "" && cur_channel != e.ChannelCallSign
NeedsClose(cur, evt) == cur # "" /\ cur # evt.ChannelCallSign

\* if cur_channel == "" || cur_channel != e.ChannelCallSign
NeedsOpen(cur, evt) == cur = "" \/ cur # evt.ChannelCallSign

\* net.Dial succeeds or fails; on success the session waits for the greeting.
SessDial ==
    /\ procState = "running"
    /\ spc = "dial"
    /\ \/ /\ connState' = "open"
          /\ spc' = "greeting"
          /\ UNCHANGED procState
       \/ /\ procState' = "fatal"
          /\ UNCHANGED <<connState, spc>>
    /\ UNCHANGED <<e, cur_channel, nchan, sent, recvd, comm, netdone, dequeued>>
    /\ UNCHANGED <<channels, commClosed, enqueued>>
    /\ UNCHANGED mainVars

\* CLRE written with svdrp_write alone: its reply is not awaited.
SessGreeting_NoClearReply ==
    /\ procState = "running"
    /\ spc = "greeting"
    /\ \E data \in PeerReplies(VDR_SC_SERVICE_READY) :
        /\ recvd' = Append(recvd, <<VDR_SC_SERVICE_READY, data>>)
        /\ IF ReplyAccepted(data, VDR_SC_SERVICE_READY)
           THEN /\ sent' = svdrp_write(sent, <<CmdLine("CLRE")>>)
                /\ spc' = "select"
                /\ UNCHANGED <<e, cur_channel, nchan, connState, comm, netdone,
                               dequeued, procState>>
           ELSE Fatal
    /\ UNCHANGED <<channels, commClosed, enqueued>>
    /\ UNCHANGED mainVars

\* svdrp_wait_for_reply(conn, VDR_SC_SERVICE_READY), then the write of CLRE.
SessGreeting ==
    /\ procState = "running"
    /\ spc = "greeting"
    /\ \E data \in PeerReplies(VDR_SC_SERVICE_READY) :
        /\ recvd' = Append(recvd, <<VDR_SC_SERVICE_READY, data>>)
        /\ IF ReplyAccepted(data, VDR_SC_SERVICE_READY)
           THEN /\ sent' = svdrp_write(sent, <<CmdLine("CLRE")>>)
                /\ spc' = "clre_reply"
                /\ UNCHANGED <<e, cur_channel, nchan, connState, comm, netdone,
                               dequeued, procState>>
           ELSE Fatal
    /\ UNCHANGED <<channels, commClosed, enqueued>>
    /\ UNCHANGED mainVars

\* The reply to CLRE; the session then blocks in the select on comm.
SessClearReply ==
    /\ procState = "running"
    /\ spc = "clre_reply"
    /\ \E data \in PeerReplies(VDR_SC_ACTION_OK) :
        /\ recvd' = Append(recvd, <<VDR_SC_ACTION_OK, data>>)
        /\ IF ReplyAccepted(data, VDR_SC_ACTION_OK)
           THEN /\ spc' = "select"
                /\ UNCHANGED <<e, cur_channel, nchan, connState, sent, comm,
                               netdone, dequeued, procState>>
           ELSE Fatal
    /\ UNCHANGED <<channels, commClosed, enqueued>>
    /\ UNCHANGED mainVars

\* The header (when a block was just opened) and the body of event evt are
\* written in one svdrp_write; the counters are bumped.
Transmit(evt, opened) ==
    LET cs == evt.ChannelCallSign
    IN  /\ sent' = svdrp_write(sent, (IF opened THEN <<HeaderLine(cs)>> ELSE <<>>)
                                         \o BodyLines(evt))
        /\ cur_channel' = (IF opened THEN cs ELSE cur_channel)
        /\ nchan' = (IF opened THEN Incr(Incr(nchan, cs), cs)
                     ELSE Incr(nchan, cur_channel))
        /\ e' = <<>>
        /\ spc' = "select"

\* e, ok := <-comm with ok == true: the event is dropped, or transmitted into
\* the open block, or the session writes the close sequence / PUTE and waits
\* for the reply.
SessRecv ==
    /\ procState = "running"
    /\ spc = "select"
    /\ CanRecv(comm)
    /\ LET evt == Head(comm)
       IN  /\ comm' = AfterRecv(comm)
           /\ dequeued' = Append(dequeued, evt)
           /\ IF Dropped(evt)
              THEN DropEvent
              ELSE IF NeedsClose(cur_channel, evt)
              THEN /\ sent' = svdrp_write(sent, CloseSequence)
                   /\ e' = <<evt>>
                   /\ spc' = "close_reply"
                   /\ UNCHANGED <<cur_channel, nchan>>
              ELSE IF NeedsOpen(cur_channel, evt)
              THEN /\ sent' = svdrp_write(sent, <<CmdLine("PUTE")>>)
                   /\ e' = <<evt>>
                   /\ spc' = "pute_reply"
                   /\ UNCHANGED <<cur_channel, nchan>>
              ELSE Transmit(evt, FALSE)
    /\ UNCHANGED <<connState, recvd, netdone, procState>>
    /\ UNCHANGED <<channels, commClosed, enqueued>>
    /\ UNCHANGED mainVars

\* The reply to "." after a change of channel.
SessCloseReply ==
    /\ procState = "running"
    /\ spc = "close_reply"
    /\ \E data \in PeerReplies(VDR_SC_ACTION_OK) :
        /\ recvd' = Append(recvd, <<VDR_SC_ACTION_OK, data>>)
        /\ IF ReplyAccepted(data, VDR_SC_ACTION_OK)
           THEN /\ IF NeedsOpen(cur_channel, e[1])
                   THEN /\ sent' = svdrp_write(sent, <<CmdLine("PUTE")>>)
                        /\ spc' = "pute_reply"
                        /\ UNCHANGED <<e, cur_channel, nchan>>
                   ELSE Transmit(e[1], FALSE)
                /\ UNCHANGED <<connState, comm, netdone, dequeued, procState>>
           ELSE Fatal
    /\ UNCHANGED <<channels, commClosed, enqueued>>
    /\ UNCHANGED mainVars

\* The reply to PUTE; the header and the body follow.
SessPuteReply ==
    /\ procState = "running"
    /\ spc = "pute_reply"
    /\ \E data \in PeerReplies(VDR_SC_EPG_START_SENDING) :
        /\ recvd' = Append(recvd, <<VDR_SC_EPG_START_SENDING, data>>)
        /\ IF ReplyAccepted(data, VDR_SC_EPG_START_SENDING)
           THEN /\ Transmit(e[1], TRUE)
                /\ UNCHANGED <<connState, comm, netdone, dequeued, procState>>
           ELSE Fatal
    /\ UNCHANGED <<channels, commClosed, enqueued>>
    /\ UNCHANGED mainVars

\* The lines written once the loop has ended (lines 531-532).
EndOfInputLines(cur) == CloseSequence

\* e, ok := <-comm with ok == false (closed and drained): done = true, the
\* loop ends, "c" and "." are written.
SessEndOfInput ==
    /\ procState = "running"
    /\ spc = "select"
    /\ ~CanRecv(comm)
    /\ commClosed
    /\ sent' = svdrp_write(sent, EndOfInputLines(cur_channel))
    /\ spc' = "end_reply"
    /\ UNCHANGED <<e, cur_channel, nchan, connState, recvd, comm, netdone,
                   dequeued, procState>>
    /\ UNCHANGED <<channels, commClosed, enqueued>>
    /\ UNCHANGED mainVars

\* The reply to the final "."; QUIT is written.
SessEndReply ==
    /\ procState = "running"
    /\ spc = "end_reply"
    /\ \E data \in PeerReplies(VDR_SC_ACTION_OK) :
        /\ recvd' = Append(recvd, <<VDR_SC_ACTION_OK, data>>)
        /\ IF ReplyAccepted(data, VDR_SC_ACTION_OK)
           THEN /\ sent' = svdrp_write(sent, <<CmdLine("QUIT")>>)
                /\ spc' = "quit_reply"
                /\ UNCHANGED <<e, cur_channel, nchan, connState, comm, netdone,
                               dequeued, procState>>
           ELSE Fatal
    /\ UNCHANGED <<channels, commClosed, enqueued>>
    /\ UNCHANGED mainVars

\* The reply to QUIT; the report, conn.Close() and netdone <- true.
SessQuitReply ==
    /\ procState = "running"
    /\ spc = "quit_reply"
    /\ \E data \in PeerReplies(VDR_SC_SERVICE_CLOSING) :
        /\ recvd' = Append(recvd, <<VDR_SC_SERVICE_CLOSING, data>>)
        /\ IF ReplyAccepted(data, VDR_SC_SERVICE_CLOSING)
           THEN /\ CanSend(netdone, NetdoneCap)
                /\ connState' = "closed"
                /\ netdone' = Append(netdone, TRUE)
                /\ spc' = "done"
                /\ UNCHANGED <<e, cur_channel, nchan, sent, comm, dequeued,
                               procState>>
           ELSE Fatal
    /\ UNCHANGED <<channels, commClosed, enqueued>>
    /\ UNCHANGED mainVars

\* ------------------------------------------------------- specification

Next ==
    \/ MainChannel
    \/ MainProgramme
    \/ MainSend
    \/ MainEOF
    \/ MainClose
    \/ MainWait
    \/ SessDial
    \/ SessGreeting
    \/ SessClearReply
    \/ SessRecv
    \/ SessCloseReply
    \/ SessPuteReply
    \/ SessEndOfInput
    \/ SessEndReply
    \/ SessQuitReply

Spec == Init /\ [][Next]_vars

\* The process does not stop while a goroutine can take a step (the Go
\* scheduler runs a runnable goroutine), and the peer answers every awaited
\* reply: the steps that await a reply include the peer's answer.
FairSpec == Init /\ [][Next]_vars /\ WF_vars(Next)

\* ------------------------------------------------- reading the wire log

Tag(line) == line[1]

\* The positions of the log that hold a line with the given tag.
Positions(log, tag) == {i \in 1..Len(log) : Tag(log[i]) = tag}

Count(log, tag) == Cardinality(Positions(log, tag))

\* The k-th smallest element of a set of positions.
Nth(S, k) == CHOOSE i \in S : Cardinality({j \in S : j < i}) = k - 1

\* A block is open on the wire after log: the last of PUTE and "." is a PUTE.
BlockOpen(log) ==
    /\ Positions(log, "PUTE") # {}
    /\ \A j \in Positions(log, ".") : \E i \in Positions(log, "PUTE") : i > j

Prefix(log, i) == SubSeq(log, 1, i - 1)

\* A recvd entry whose line carries exactly the expected status code.
StatusIs(entry) == ~entry[2].err /\ entry[2].line = FormatInt(entry[1])

\* The events the session has finished with (dropped or transmitted).
Completed == SubSeq(dequeued, 1, Len(dequeued) - Len(e))

RECURSIVE Mapped(_)
\* The events of a sequence whose call sign is a directory key.
Mapped(evs) ==
    IF evs = <<>> THEN <<>>
    ELSE (IF Head(evs).ChannelCallSign \in DOMAIN channels
          THEN <<Head(evs)>> ELSE <<>>) \o Mapped(Tail(evs))

BodyTags == {"E", "T", "S", "D", "G", "R", "e"}

RECURSIVE BodiesOf(_)
\* The body lines of a wire log, in order.
BodiesOf(log) ==
    IF log = <<>> THEN <<>>
    ELSE (IF Tag(Head(log)) \in BodyTags THEN <<Head(log)>> ELSE <<>>)
         \o BodiesOf(Tail(log))

RECURSIVE AllBodyLines(_)
AllBodyLines(evs) ==
    IF evs = <<>> THEN <<>> ELSE BodyLines(Head(evs)) \o AllBodyLines(Tail(evs))

\* ------------------------------------------------------------- claims

\* C1: at end of input the close sequence is sent if and only if a block is
\* open: every "." written closes an open block (so none is written when no
\* event was transmitted), and no block is open when QUIT is written.
C1_CloseIffBlockOpen ==
    /\ \A i \in Positions(sent, ".") : BlockOpen(Prefix(sent, i))
    /\ \A i \in Positions(sent, "QUIT") : ~BlockOpen(Prefix(sent, i))

\* C2: two consecutive transmitted events with the same call sign share one
\* block: between the end of the first body and the end of the second the
\* session writes no PUTE, no channel header and no close sequence.
C2_OneHandshakePerRun ==
    LET ends == Positions(sent, "e")
        evs  == Mapped(dequeued)
    IN  \A k \in 2..Cardinality(ends) :
            evs[k].ChannelCallSign = evs[k - 1].ChannelCallSign =>
                \A i \in (Nth(ends, k - 1) + 1)..Nth(ends, k) :
                    Tag(sent[i]) \notin {"PUTE", "C", "c", "."}

\* C3: no PUTE is written while a block is open: every PUTE but the first
\* directly follows a close sequence "c", "." (whose reply was awaited).
C3_CloseBeforeOpen ==
    \A i \in Positions(sent, "PUTE") :
        /\ ~BlockOpen(Prefix(sent, i))
        /\ Positions(Prefix(sent, i), "PUTE") # {} =>
               i > 2 /\ Tag(sent[i - 1]) = "." /\ Tag(sent[i - 2]) = "c"

\* C4: a reply that is not the expected status code (or a read error) ends
\* the process at once: the step that reads it writes nothing and signals
\* nothing, and no step is ever taken from the fatal state.
C4_MismatchIsFatal ==
    /\ [][Len(recvd') > Len(recvd) /\ ~StatusIs(recvd'[Len(recvd')]) =>
            /\ procState' = "fatal"
            /\ UNCHANGED <<sent, netdone, connState, spc, cur_channel, nchan,
                           dequeued>>]_vars
    /\ [][procState # "fatal"]_vars

C4_Witness ==
    /\ procState = "fatal"
    /\ spc = "close_reply"
    /\ Count(sent, "e") >= 1
    /\ ~StatusIs(recvd[Len(recvd)])

\* C5: the greeting is read and verified before CLRE is written, and CLRE is
\* acknowledged before any event is dequeued or any further line written.
C5_StartupOrder ==
    /\ recvd # <<>> => recvd[1][1] = VDR_SC_SERVICE_READY
    /\ sent # <<>> => Tag(sent[1]) = "CLRE" /\ recvd # <<>> /\ StatusIs(recvd[1])
    /\ Len(recvd) >= 2 => sent # <<>> /\ recvd[2][1] = VDR_SC_ACTION_OK
    /\ dequeued # <<>> \/ Len(sent) >= 2 \/ spc = "select" =>
           Len(recvd) >= 2 /\ StatusIs(recvd[2])

C5_Witness ==
    /\ Count(sent, "PUTE") = 1
    /\ Count(sent, "e") = 1
    /\ Len(dequeued) = 2

\* C6: an event whose call sign is no directory key is dropped with no
\* effect: the step that dequeues it writes nothing, reads no reply and leaves
\* the open channel, the counters and the session's position as they were.
C6_DropHasNoEffect ==
    [][Len(dequeued') > Len(dequeued)
         /\ dequeued'[Len(dequeued')].ChannelCallSign \notin DOMAIN channels =>
            UNCHANGED <<sent, recvd, cur_channel, nchan, spc, e, connState>>]_vars

\* A dropped event of an unmapped XML channel lies between two transmitted
\* events of channel A, which share one block.
C6_Witness ==
    /\ Len(dequeued) = 3
    /\ e = <<>>
    /\ dequeued[1].ChannelCallSign = "A"
    /\ dequeued[2].ChannelCallSign = ""
    /\ "" \notin DOMAIN channels
    /\ dequeued[3].ChannelCallSign = "A"
    /\ Count(sent, "PUTE") = 1
    /\ Count(sent, "e") = 2
    /\ Count(sent, ".") = 0

\* The fields that identify the Programme record an event was built from.
BuiltFrom(evt, p) ==
    /\ evt.CChannel = p.Channel
    /\ evt.EEStartTime = p.Start
    /\ evt.EEStopTime = p.Stop
    /\ evt.TTitle = p.Title
    /\ evt.SSubTitle = p.SubTitle
    /\ evt.DDescription = p.Description

\* C7: one event per Programme record, enqueued in document order; the
\* session dequeues the enqueued events once each in the same order; the
\* bodies on the wire are those of the mapped events, in that order; at a
\* normal exit every event was dequeued.
C7_FifoDelivery ==
    /\ Len(programmes) = Len(enqueued) + Len(ev)
    /\ \A i \in 1..Len(enqueued) : BuiltFrom(enqueued[i], programmes[i])
    /\ ev # <<>> => BuiltFrom(ev[1], programmes[Len(programmes)])
    /\ dequeued \o comm = enqueued
    /\ BodiesOf(sent) = AllBodyLines(Mapped(Completed))
    /\ procState = "exited" => dequeued = enqueued /\ ev = <<>> /\ e = <<>>

C7_Witness ==
    /\ procState = "exited"
    /\ Len(programmes) = 3
    /\ Count(sent, "e") = 2
    /\ programmes[1].Channel # programmes[2].Channel
    /\ programmes[2].Title # programmes[3].Title

\* C8: comm never holds more than one event; a send on the full queue and a
\* receive on the empty open queue are not enabled; the producer is at most
\* one queued event plus the one in transmission ahead of the session.
C8_QueueBound ==
    /\ Len(comm) <= CommCap
    /\ Len(enqueued) - Len(Completed) <= CommCap + 1
    /\ mpc = "send" /\ Len(comm) = CommCap => ~ENABLED MainSend
    /\ spc = "select" /\ comm = <<>> /\ ~commClosed =>
           ~ENABLED SessRecv /\ ~ENABLED SessEndOfInput

\* The producer is suspended on the full queue while the session is in the
\* middle of a transmission.
C8_Witness ==
    /\ mpc = "send"
    /\ Len(comm) = CommCap
    /\ spc = "pute_reply"
    /\ Len(enqueued) - Len(Completed) = CommCap + 1

\* C9: comm is closed only after the decoder loop has ended; the completion
\* signal is sent once, after QUIT was written, its reply verified and the
\* connection closed; the process exits normally only after the signal, with
\* no block open.
C9_CompletionOrder ==
    /\ commClosed => mpc \in {"wait", "returned"}
    /\ Len(netdone) + (IF mpc = "returned" THEN 1 ELSE 0)
           = (IF spc = "done" THEN 1 ELSE 0)
    /\ spc = "done" =>
           /\ Tag(sent[Len(sent)]) = "QUIT"
           /\ recvd[Len(recvd)][1] = VDR_SC_SERVICE_CLOSING
           /\ StatusIs(recvd[Len(recvd)])
           /\ connState = "closed"
           /\ commClosed
    /\ procState = "exited" =>
           /\ mpc = "returned"
           /\ spc = "done"
           /\ ~BlockOpen(sent)

C9_Witness ==
    /\ procState = "exited"
    /\ Count(sent, "e") >= 1
    /\ netdone = <<>>

\* A failure of the peer: the dial failed or a reply was not the expected one.
PeerFailed ==
    \/ connState = "none" /\ procState = "fatal"
    \/ recvd # <<>> /\ ~StatusIs(recvd[Len(recvd)])

\* C10: under fair scheduling the run always ends, and it ends in one of two
\* ways: a fatal connection/protocol error, or main returns after the source
\* was exhausted, comm closed and drained, and the session signalled
\* completion; while it runs, some step is always possible (no deadlock).
C10_Terminates ==
    /\ <>(procState # "running")
    /\ [](procState = "running" => ENABLED Next)
    /\ [](procState = "fatal" <=> PeerFailed)
    /\ [](procState = "exited" =>
            /\ commClosed
            /\ comm = <<>>
            /\ dequeued = enqueued
            /\ Len(enqueued) = Len(programmes)
            /\ spc = "done")

C10_Witness ==
    /\ procState = "exited"
    /\ Len(dequeued) = 3
    /\ Count(sent, "PUTE") = 2

\* ---------------------------------------------- channel identifier (C11)

\* Descriptors over which vdr_make_channel_id is exercised: every source
\* letter, frequencies above and below 1000, signed and empty, both values
\* of each id, two names.
FrequencySamples ==
    {<<"4", "7", "4", "0", "0", "0">>, <<"1", "2", "3", "0", "0", "0">>,
     <<"9", "9", "9">>, <<"-", "1", "5", "0", "0">>, <<>>}

SourceSamples == {<<"A">>, <<"T">>, <<"S">>, <<"C">>}

DescriptorSamples ==
    {VDRChannel(n, n, f, s, sid, nid, tid) :
        n \in {"K", "L"}, f \in FrequencySamples, s \in SourceSamples,
        sid \in {<<"3">>, <<"7">>}, nid \in {<<"0">>, <<"1">>},
        tid \in {<<"0">>, <<"1">>}}

\* A channels.conf of one line, nothing else started.
IdInit ==
    /\ channels \in {load_vdr_channels({c}) : c \in DescriptorSamples}
    /\ xmltvid2callsign = EmptyMap
    /\ ntokens = 0
    /\ err = "nil"
    /\ mpc = "loop"
    /\ ev = <<>>
    /\ comm = <<>>
    /\ commClosed = FALSE
    /\ netdone = <<>>
    /\ spc = "dial"
    /\ e = <<>>
    /\ cur_channel = ""
    /\ nchan = EmptyMap
    /\ connState = "none"
    /\ procState = "running"
    /\ sent = <<>>
    /\ recvd = <<>>
    /\ programmes = <<>>
    /\ enqueued = <<>>
    /\ dequeued = <<>>

\* cmd += fmt.Sprintf("C %s %s\r\n", vdr_make_channel_id(channels[cs]), cs),
\* once or again for the same descriptor.
WriteHeader ==
    /\ Len(sent) < MaxCalls
    /\ \E cs \in DOMAIN channels : sent' = svdrp_write(sent, <<HeaderLine(cs)>>)
    /\ UNCHANGED <<channels, xmltvid2callsign, ntokens, err, mpc, ev, comm,
                   commClosed, netdone, spc, e, cur_channel, nchan, connState,
                   procState, recvd, programmes, enqueued, dequeued>>

IdSpec == IdInit /\ [][WriteHeader]_vars

\* The identifier as the descriptor's five fields determine it.
Dashed(a, b, c, d) == a \o <<"-">> \o b \o <<"-">> \o c \o <<"-">> \o d

Truncated(n, k) == IF n < 0 THEN -((-n) \div k) ELSE n \div k

ExpectedChannelId(src, nid, tid, sid, freq) ==
    IF tid # <<"0">> \/ nid # <<"0">> THEN Dashed(src, nid, tid, sid)
    ELSE IF src \in {<<"A">>, <<"T">>}
         THEN Dashed(src, nid, FormatInt(Truncated(Atoi(freq), 1000)), sid)
         ELSE Dashed(src, nid, FormatInt(Atoi(freq)), sid)

\* C11: every channel header carries the identifier that Source, NetworkId,
\* TransportId, ServiceId and Frequency of the named descriptor determine:
\* the alternate form when TransportId or NetworkId is not "0", otherwise
\* the frequency form, scaled by 1000 exactly for sources A and T; a second
\* call yields the same identifier; T/474000/0/0/3 gives T-0-474-3 and
\* S/123000/1/1/7 gives S-1-1-7.
C11_ChannelId ==
    /\ \A i \in Positions(sent, "C") :
           LET c == channels[sent[i][3]]
           IN  sent[i][2] = ExpectedChannelId(c.Source, c.NetworkId,
                                              c.TransportId, c.ServiceId,
                                              c.Frequency)
    /\ \A i, j \in Positions(sent, "C") : sent[i][3] = sent[j][3] => sent[i][2] = sent[j][2]
    /\ vdr_make_channel_id(ChannelA) = <<"T", "-", "0", "-", "4", "7", "4", "-", "3">>
    /\ vdr_make_channel_id(ChannelB) = <<"S", "-", "1", "-", "1", "-", "7">>

\* A terrestrial descriptor with only its network id set, identified twice.
C11_Witness ==
    /\ Len(sent) = 2
    /\ \E cs \in DOMAIN channels :
           /\ channels[cs].Source = <<"T">>
           /\ channels[cs].NetworkId = <<"1">>
           /\ channels[cs].TransportId = <<"0">>
           /\ sent[1] = <<"C", <<"T", "-", "1", "-", "0", "-", "3">>, cs>>

\* ------------------------------------------------------- event id (C12)

\* C12: the event id of every event header line is the start instant in
\* whole minutes modulo 65536.
C12_EventIdMod65536 ==
    \A i \in Positions(sent, "E") : sent[i][2] = (sent[i][3] \div 60) % 65536

\* ----------------------------------------------------- genre codes (C13)

RECURSIVE RecognizedCodes(_)
\* The table codes of the categories that are keys of the genre table, in
\* category order.
RecognizedCodes(cats) ==
    IF cats = <<>> THEN <<>>
    ELSE (IF Head(cats) \in DOMAIN genres THEN <<genres[Head(cats)]>> ELSE <<>>)
             \o RecognizedCodes(Tail(cats))

\* C13: the genre code list of every event holds exactly the codes of the
\* recognized categories of its Programme record, in order; a category that
\* is not in the table contributes no entry.
C13_UnknownGenresOmitted ==
    \A i \in 1..Len(enqueued) :
        enqueued[i].GGenres = RecognizedCodes(programmes[i].Categories)

\* ------------------------------------------------- cross-reference (C14)

\* r is map with at most the entry of id replaced.
SameElsewhere(r, map, id) ==
    /\ DOMAIN r \ {id} = DOMAIN map \ {id}
    /\ \A k \in DOMAIN map \ {id} : r[k] = map[k]

\* The first display name that is a directory key decides the mapping of
\* the record's id; with no such name the mapping stays as it is.
FirstMatchWins(r, map, ch) ==
    IF \A i \in 1..Len(ch.Names) : ch.Names[i] \notin DOMAIN channels
    THEN r = map
    ELSE \E i \in 1..Len(ch.Names) :
             /\ ch.Names[i] \in DOMAIN channels
             /\ \A j \in 1..(i - 1) : ch.Names[j] \notin DOMAIN channels
             /\ ch.Id \in DOMAIN r
             /\ r[ch.Id] = channels[ch.Names[i]].CallSign
             /\ SameElsewhere(r, map, ch.Id)

\* Whatever Channel record comes next, its first matching name wins.
EveryRecordFirstMatch ==
    \A ch \in ChannelRecords :
        FirstMatchWins(CrossReference(xmltvid2callsign, ch), xmltvid2callsign, ch)

\* C14: the first display name of a Channel record that is a directory key
\* establishes the mapping and later names are not consulted; a record with
\* no matching name creates no mapping, so the events of its id carry no
\* call sign and the session transmits no body for them.
C14_FirstMatchOrDropped ==
    /\ EveryRecordFirstMatch
    /\ \A i \in 1..Len(enqueued) :
           programmes[i].Channel \notin DOMAIN xmltvid2callsign =>
               enqueued[i].ChannelCallSign = ""
    /\ Count(sent, "e") =
           Cardinality({i \in 1..Len(Completed) : Completed[i].ChannelCallSign # ""})

\* ------------------------------------------ tokenizer read failure (C15)

\* The session sent its end-of-input sequence and main returned.
NormalEnd ==
    /\ procState = "exited"
    /\ commClosed
    /\ comm = <<>>
    /\ dequeued = enqueued
    /\ spc = "done"
    /\ connState = "closed"
    /\ Len(sent) >= 3
    /\ SubSeq(sent, Len(sent) - 2, Len(sent)) = CloseSequence \o <<CmdLine("QUIT")>>

\* C15: a failed read of the XML source is not fatal: the step that meets it
\* only leaves the decoder loop, and from there the run goes on to the
\* normal end (unless the peer fails): nothing is enqueued after the
\* failure, the events enqueued before it are all delivered, comm is closed,
\* the session sends the close sequence and QUIT and signals completion.
C15_ReadFailureEndsInput ==
    /\ [][err' = "read failed" /\ err # "read failed" =>
              /\ procState' = "running"
              /\ mpc' = "close"
              /\ UNCHANGED <<enqueued, comm, commClosed>>]_vars
    /\ [][mpc \notin {"loop", "send"} => UNCHANGED <<enqueued, programmes, ntokens>>]_vars
    /\ [](procState = "fatal" => PeerFailed)
    /\ (err = "read failed") ~> (PeerFailed \/ NormalEnd)

\* The read fails while the second event is still in the queue and the
\* source had more to give.
C15_Witness ==
    /\ err = "read failed"
    /\ ntokens < MaxDoc
    /\ Len(enqueued) = 2
    /\ comm # <<>>
    /\ spc = "select"

\* ------------------------------------------------ state ownership (C16)

C17_RatingLookup ==
    /\ \A i \in 1..Len(enqueued) :
           LET label == programmes[i].Rating
               code  == enqueued[i].RRating
           IN  /\ label \in DOMAIN ratings => code = ratings[label]
               /\ label \notin DOMAIN ratings => code = 0
    /\ \A k \in 1..Count(sent, "R") :
           sent[Nth(Positions(sent, "R"), k)][2] = Mapped(dequeued)[k].RRating

\* Events with a known label, an unknown label and no label were built and
\* the first two transmitted.
C17_Witness ==
    /\ Len(enqueued) = 3
    /\ \E i, j, k \in 1..3 :
           /\ programmes[i].Rating = "TV-G" /\ enqueued[i].RRating = 8
           /\ programmes[j].Rating = "NR" /\ enqueued[j].RRating = 0
           /\ programmes[k].Rating = "" /\ enqueued[k].RRating = 0
    /\ Count(sent, "R") >= 2

\* ------------------------------------------------ body and replies (C18)

\* The tags of the lines from position i to position j of a wire log.
TagsBetween(log, i, j) == [k \in 1..(j - i + 1) |-> Tag(log[i + k - 1])]

\* The commands whose reply svdrp_write_n_reply awaits.
AwaitedCommands == {"CLRE", "PUTE", ".", "QUIT"}

\* C18: the k-th body on the wire belongs to the k-th non-dropped event and
\* is the lines E, T, S, D, G, R, e in that order, the S line present
\* exactly when the event's subtitle is non-empty; every non-dropped event
\* the session has finished with has its body on the wire; the replies read
\* are the greeting and at most one per CLRE, PUTE, "." and QUIT written
\* (none for body lines), and at a normal exit their number is 2 plus the
\* number of PUTE plus the number of close sequences plus 1.
C18_BodyOrderAndReplies ==
    /\ Count(sent, "E") = Count(sent, "e")
    /\ Count(sent, "e") = Len(Mapped(Completed))
    /\ \A k \in 1..Count(sent, "e") :
           LET first == Nth(Positions(sent, "E"), k)
               last  == Nth(Positions(sent, "e"), k)
           IN  TagsBetween(sent, first, last) =
                   IF Mapped(dequeued)[k].SSubTitle # ""
                   THEN <<"E", "T", "S", "D", "G", "R", "e">>
                   ELSE <<"E", "T", "D", "G", "R", "e">>
    /\ \A i \in 1..Len(sent) : Tag(sent[i]) \in BodyTags \cup AwaitedCommands \cup {"C", "c"}
    /\ Len(recvd) <= 1 + Cardinality({i \in 1..Len(sent) : Tag(sent[i]) \in AwaitedCommands})
    /\ procState = "exited" =>
           Len(recvd) = 2 + Count(sent, "PUTE") + Count(sent, ".") + 1

\* A successful run that transmitted one event with a subtitle and one
\* without.
C18_Witness ==
    /\ procState = "exited"
    /\ Count(sent, "e") = 2
    /\ Count(sent, "S") = 1
    /\ Len(recvd) = 5

\* ----------------------------------------------- per-channel counter (C19)

\* The number of events of call sign cs in a sequence of events.
EventsOf(evs, cs) == Cardinality({i \in 1..Len(evs) : evs[i].ChannelCallSign = cs})

\* C19: at every point of the run the counter of each call sign equals the
\* number of event bodies transmitted for that call sign so far.
C19_CounterIsBodies ==
    \A cs \in DOMAIN channels \cup DOMAIN nchan :
        MapGet(nchan, cs, 0) = EventsOf(Mapped(Completed), cs)

\* ------------------------------------------------- one open block (C20)

\* The call sign of the last channel header before position i, "" if none.
HeaderBefore(log, i) ==
    LET hs == {j \in Positions(log, "C") : j < i}
    IN  IF hs = {} THEN ""
        ELSE log[CHOOSE j \in hs : \A h \in hs : h <= j][3]

\* PUTE handshakes less close sequences written.
OpenBlocks(log) == Count(log, "PUTE") - Count(log, ".")

\* C20: the open handshakes written less the close sequences written is
\* always 0 or 1; every event body is written while a block is open whose
\* header names the event's call sign; when the session signals completion
\* the two counts are equal.
C20_AtMostOneBlock ==
    /\ OpenBlocks(sent) \in {0, 1}
    /\ \A k \in 1..Count(sent, "E") :
           LET i == Nth(Positions(sent, "E"), k)
           IN  /\ OpenBlocks(Prefix(sent, i)) = 1
               /\ \E j \in Positions(sent, "C") : j < i
               /\ HeaderBefore(sent, i) = Mapped(dequeued)[k].ChannelCallSign
    /\ spc = "done" => OpenBlocks(sent) = 0

\* ------------------------------------- resolution at translation (C21)

\* The step that translates a Programme record takes the call sign from the
\* mapping as the Channel records before it left it; no step changes an
\* event once built.
ResolvedAtTranslation ==
    [][/\ Len(programmes') > Len(programmes) =>
              ev'[1].ChannelCallSign =
                  MapGet(xmltvid2callsign, programmes'[Len(programmes')].Channel, "")
       /\ \A i \in 1..Len(enqueued) : enqueued'[i] = enqueued[i]]_vars

\* No step removes a key of the mapping.
MappingOnlyGrows ==
    [][DOMAIN xmltvid2callsign \subseteq DOMAIN xmltvid2callsign']_vars

\* The positions of a sequence of events that carry a call sign.
Resolved(evs) == {i \in 1..Len(evs) : evs[i].ChannelCallSign # ""}

\* C21: an event built while its channel id had no mapping carries no call
\* sign and gets no body on the wire, also when the id is mapped by now;
\* the events built after the mapping was established carry a call sign and
\* get their body; once an event of an id carries a call sign, so does
\* every later event of that id (the mapping is not removed).
C21_ResolvedAtTranslation ==
    /\ \A i \in 1..Len(enqueued) :
           /\ programmes[i].Channel \notin DOMAIN xmltvid2callsign =>
                  enqueued[i].ChannelCallSign = ""
           /\ \A j \in i..Len(enqueued) :
                  /\ programmes[j].Channel = programmes[i].Channel
                  /\ enqueued[i].ChannelCallSign # ""
                  => enqueued[j].ChannelCallSign # ""
    /\ Count(sent, "e") = Cardinality(Resolved(Completed))
    /\ \A k \in 1..Count(sent, "C") :
           sent[Nth(Positions(sent, "C"), k)][3] # ""
====
